---- MODULE Spec2Model ----
(***************************************************************************)
(* A model of the LazyLog component (src/src/components/LazyLog/index.tsx) *)
(* and of the SearchBar that drives its search handlers.                   *)
(*                                                                         *)
(* A step of the model is one handler of the component run to completion:  *)
(* the handler's setState calls, the render they cause                     *)
(* (getDerivedStateFromProps), componentDidUpdate and the setState         *)
(* callbacks.  Text is a sequence of code points, the log a sequence of    *)
(* bytes.  A value the code leaves undefined and only tests for truth is   *)
(* modelled by the falsy value of its type (FALSE, "", <<>>, 0).           *)
(***************************************************************************)
EXTENDS Integers, Sequences, FiniteSets, TLC

VARIABLES
    phase,        \* "constructed", "mounted" or "unmounted"
    props,        \* the props of the component
    state,        \* this.state
    emitter,      \* this.emitter: the id of an emitter, or Null
    encodedLog,   \* this.encodedLog
    emitters,     \* every emitter initEmitter has created, by id
    sbKeywords,   \* SearchBar's state.keywords
    calls,        \* what the last step invoked: request and the callbacks
    requests,     \* how many times request() has run
    event         \* the emitter event of the last step, if it was one

vars == <<phase, props, state, emitter, encodedLog, emitters, sbKeywords, calls, requests, event>>

----------------------------------------------------------------------------
(* Bounds and input sets *)

MaxRequests == 2
MaxChunks == 2

Null == 0
NoUrl == ""
NoText == << >>
NoError == "null"

Urls == {"u1", "u2"}
Errors == {"E1"}

\* "ab\nba" (no final terminator) and "abab\n" followed by e-acute and "\n"
Texts == { <<97, 98, 10, 98, 97>>, <<97, 98, 97, 98, 10, 233, 10>> }

\* "ab" and "ab\nba\n"
Chunks == { <<97, 98>>, <<97, 98, 10, 98, 97, 10>> }

\* "ab"
Messages == { <<97, 98>>, <<97, 98, 97, 98>> }

\* "a", "ab", "ba"
SearchInputs == { <<97>>, <<97, 98>>, <<98, 97>> }

ListenerNames == {"update", "end", "error"}

\* a highlight is << >> (none), <<n>> (a line) or <<start, end>>; a range
\* is << >> (empty) or <<first, last>>
NoHighlight == << >>

\* "a\nb\nab\nba": four lines to click on
ClickTexts == { <<97, 10, 98, 10, 97, 98, 10, 98, 97>> }

HighlightInputs == { NoHighlight, <<2>>, <<3, 2>> }

\* the rows a click may name: no text has more lines than bytes
Rows == UNION { 1..Len(t) : t \in ClickTexts }

----------------------------------------------------------------------------
(* encoding, utils and search: pure functions *)

LF == 10
SEARCH_MIN_KEYWORDS == 1

EncodeChar(c) ==
    IF c < 128 THEN <<c>> ELSE <<192 + (c \div 64), 128 + (c % 64)>>

RECURSIVE encode(_)
encode(text) ==
    IF text = << >> THEN << >> ELSE EncodeChar(Head(text)) \o encode(Tail(text))

RECURSIVE decode(_)
decode(bytes) ==
    IF bytes = << >> THEN << >>
    ELSE LET b == Head(bytes) IN
         IF b < 128 THEN <<b>> \o decode(Tail(bytes))
         ELSE IF /\ b >= 192 /\ b < 224 /\ Len(bytes) >= 2
                 /\ bytes[2] >= 128 /\ bytes[2] < 192
              THEN <<(b - 192) * 64 + (bytes[2] - 128)>> \o decode(Tail(Tail(bytes)))
              ELSE <<65533>> \o decode(Tail(bytes))

RECURSIVE ScanLines(_, _, _, _)
ScanLines(buffer, index, lastNewlineIndex, lines) ==
    IF index > Len(buffer)
    THEN [lines |-> lines,
          remaining |-> IF index # lastNewlineIndex
                        THEN SubSeq(buffer, lastNewlineIndex, Len(buffer))
                        ELSE << >>]
    ELSE IF buffer[index] = LF
         THEN ScanLines(buffer, index + 1, index + 1,
                        Append(lines, SubSeq(buffer, lastNewlineIndex, index - 1)))
         ELSE ScanLines(buffer, index + 1, lastNewlineIndex, lines)

\* { lines, remaining }; remaining is << >> where the code returns null
convertBufferToLines(currentArray, previousArray) ==
    ScanLines(previousArray \o currentArray, 1, 1, << >>)

getScrollIndex(follow, scrollToLine, previousCount, count, offset) ==
    IF follow THEN count - 1 - offset
    ELSE IF scrollToLine # 0 /\ previousCount > scrollToLine THEN -1
    ELSE IF scrollToLine # 0 THEN scrollToLine - 1 - offset
    ELSE -1

\* the range of a highlight, ascending
getHighlightRange(highlight) ==
    IF highlight = NoHighlight THEN NoHighlight
    ELSE IF Len(highlight) = 1 THEN <<highlight[1], highlight[1]>>
    ELSE IF highlight[1] <= highlight[2] THEN highlight
    ELSE <<highlight[2], highlight[1]>>

ToLower(c) == IF c >= 65 /\ c <= 90 THEN c + 32 ELSE c

Occurrences(line, keywords) ==
    Cardinality({i \in 1..(Len(line) - Len(keywords) + 1) :
                    SubSeq(line, i, i + Len(keywords) - 1) = keywords})

RECURSIVE Repeat(_, _)
Repeat(x, n) == IF n = 0 THEN << >> ELSE <<x>> \o Repeat(x, n - 1)

RECURSIVE MatchesFrom(_, _, _)
MatchesFrom(textLines, n, keywords) ==
    IF n > Len(textLines) THEN << >>
    ELSE Repeat(n, Occurrences(textLines[n], keywords))
         \o MatchesFrom(textLines, n + 1, keywords)

\* one entry per occurrence of the keywords, the 1-based number of its line
searchLines(rawKeywords, rawLog, isCaseInsensitive) ==
    LET text == decode(rawLog)
        log == IF isCaseInsensitive THEN [i \in 1..Len(text) |-> ToLower(text[i])] ELSE text
        keywords == IF isCaseInsensitive
                    THEN [i \in 1..Len(rawKeywords) |-> ToLower(rawKeywords[i])]
                    ELSE rawKeywords
        split == ScanLines(log, 1, 1, << >>)
        textLines == IF split.remaining # << >>
                     THEN Append(split.lines, split.remaining) ELSE split.lines
    IN MatchesFrom(textLines, 1, keywords)

----------------------------------------------------------------------------
(* The component.  S is the instance: [state, emitter, encodedLog,         *)
(* emitters, calls]; p is this.props.                                      *)

InitialState ==
    [url |-> NoUrl, text |-> NoText, lines |-> << >>, count |-> 0, offset |-> 0,
     loaded |-> FALSE, error |-> NoError,
     isSearching |-> FALSE, searchKeywords |-> << >>, resultLines |-> << >>,
     currentResultsPosition |-> 0,
     isFilteringLinesWithMatches |-> FALSE, filteredLines |-> << >>,
     resultLineUniqueIndexes |-> << >>,
     scrollToIndex |-> -1, scrollToLine |-> 0,
     highlight |-> NoHighlight]

\* a faulty getDerivedStateFromProps: a highlight input replaces the
\* highlight held
getDerivedStateFromProps_following_input(p, st) ==
    LET newScrollToIndex ==
            IF st.isSearching THEN st.scrollToIndex
            ELSE getScrollIndex(p.follow, p.scrollToLine, 0, st.count, st.offset)
        shouldUpdate == \/ p.url # NoUrl /\ p.url # st.url
                        \/ p.text # NoText /\ p.text # st.text
        st1 == [st EXCEPT !.scrollToIndex = newScrollToIndex,
                          !.highlight = IF p.highlight # NoHighlight
                                        THEN getHighlightRange(p.highlight)
                                        ELSE st.highlight]
    IN IF shouldUpdate
       THEN [st1 EXCEPT !.url = p.url, !.text = p.text, !.lines = << >>,
                        !.count = 0, !.offset = 0, !.loaded = FALSE,
                        !.error = NoError]
       ELSE st1

getDerivedStateFromProps(p, st) ==
    LET newScrollToIndex ==
            IF st.isSearching THEN st.scrollToIndex
            ELSE getScrollIndex(p.follow, p.scrollToLine, 0, st.count, st.offset)
        shouldUpdate == \/ p.url # NoUrl /\ p.url # st.url
                        \/ p.text # NoText /\ p.text # st.text
        st1 == [st EXCEPT !.scrollToIndex = newScrollToIndex,
                          !.highlight = IF st.highlight = NoHighlight
                                        THEN getHighlightRange(p.highlight)
                                        ELSE st.highlight]
    IN IF shouldUpdate
       THEN [st1 EXCEPT !.url = p.url, !.text = p.text, !.lines = << >>,
                        !.count = 0, !.offset = 0, !.loaded = FALSE,
                        !.error = NoError]
       ELSE st1

Emit(S, name) == [S EXCEPT !.calls = Append(@, name)]

EmitAll(S, names) == [S EXCEPT !.calls = @ \o names]

initEmitter(p) ==
    [kind |-> IF p.websocket THEN "websocket" ELSE IF p.stream THEN "stream" ELSE "request",
     listeners |-> {}, aborted |-> FALSE, closed |-> FALSE,
     encodedLog |-> << >>, overage |-> << >>, chunks |-> 0]

\* a faulty endRequest: the emitter is forgotten but neither aborted nor
\* detached
endRequest_forgetting(S) == [S EXCEPT !.emitter = Null]

\* a faulty endRequest: the abort is sent but the listeners stay attached
endRequest_attached(S) ==
    IF S.emitter # Null
    THEN [S EXCEPT !.emitters[S.emitter].aborted = TRUE, !.emitter = Null]
    ELSE S

endRequest(S) ==
    IF S.emitter # Null
    THEN [S EXCEPT !.emitters[S.emitter].aborted = TRUE,
                   !.emitters[S.emitter].listeners = {},
                   !.emitter = Null]
    ELSE S

RECURSIVE Unique(_, _)
Unique(seq, acc) ==
    IF seq = << >> THEN acc
    ELSE IF \E j \in 1..Len(acc) : acc[j] = Head(seq)
         THEN Unique(Tail(seq), acc)
         ELSE Unique(Tail(seq), Append(acc, Head(seq)))

\* a faulty filter: the unique indexes are compared with the 0-based index
RECURSIVE FilterFrom_zero_based(_, _, _)
FilterFrom_zero_based(lines, index, uniq) ==
    IF index > Len(lines) THEN << >>
    ELSE (IF \E j \in 1..Len(uniq) : uniq[j] = index - 1
          THEN <<lines[index]>> ELSE << >>)
         \o FilterFrom_zero_based(lines, index + 1, uniq)

RECURSIVE FilterFrom(_, _, _)
FilterFrom(lines, index, uniq) ==
    IF index > Len(lines) THEN << >>
    ELSE (IF \E j \in 1..Len(uniq) : uniq[j] = index
          THEN <<lines[index]>> ELSE << >>)
         \o FilterFrom(lines, index + 1, uniq)

filterLinesWithMatches(S) ==
    LET st == S.state IN
    IF Len(st.resultLines) > 0 /\ st.isFilteringLinesWithMatches
    THEN LET resultLineUniqueIndexes == Unique(st.resultLines, << >>) IN
         [S EXCEPT !.state.resultLineUniqueIndexes = resultLineUniqueIndexes,
                   !.state.filteredLines = FilterFrom(st.lines, 1, resultLineUniqueIndexes)]
    ELSE S

handleSearch(p, S, keywords) ==
    LET st == S.state
        currentResultLines ==
            IF ~p.stream /\ ~p.websocket /\ keywords = st.searchKeywords
            THEN st.resultLines
            ELSE searchLines(keywords, S.encodedLog, p.caseInsensitive)
    IN filterLinesWithMatches(
        [S EXCEPT !.state.resultLines = currentResultLines,
                  !.state.isSearching = TRUE,
                  !.state.searchKeywords = keywords,
                  !.state.currentResultsPosition = 0])

\* a faulty forceSearch: the stored keywords are not searched again
forceSearch_idle(p, S) == S

forceSearch(p, S) ==
    IF S.state.searchKeywords # << >> /\ Len(S.state.searchKeywords) > SEARCH_MIN_KEYWORDS
    THEN handleSearch(p, S, S.state.searchKeywords)
    ELSE S

\* a faulty handleClearSearch: the position among the matches is kept
handleClearSearch_keeping_position(S) ==
    [S EXCEPT !.state.isSearching = FALSE,
              !.state.searchKeywords = << >>,
              !.state.resultLines = << >>,
              !.state.filteredLines = << >>,
              !.state.resultLineUniqueIndexes = << >>,
              !.state.scrollToIndex = 0]

\* a faulty handleClearSearch: the matches and the keywords are kept
handleClearSearch_keeping_matches(S) ==
    [S EXCEPT !.state.isSearching = FALSE,
              !.state.filteredLines = << >>,
              !.state.resultLineUniqueIndexes = << >>,
              !.state.scrollToIndex = 0,
              !.state.currentResultsPosition = 0]

handleClearSearch(S) ==
    [S EXCEPT !.state.isSearching = FALSE,
              !.state.searchKeywords = << >>,
              !.state.resultLines = << >>,
              !.state.filteredLines = << >>,
              !.state.resultLineUniqueIndexes = << >>,
              !.state.isFilteringLinesWithMatches = S.state.isFilteringLinesWithMatches,
              !.state.scrollToIndex = 0,
              !.state.currentResultsPosition = 0]

handleFilterLinesWithMatches(S, isFilterEnabled) ==
    filterLinesWithMatches(
        [S EXCEPT !.state.isFilteringLinesWithMatches = isFilterEnabled,
                  !.state.filteredLines = << >>,
                  !.state.resultLineUniqueIndexes = << >>])

handleScrollToLine(S, scrollToLine) ==
    [S EXCEPT !.state.scrollToIndex = getScrollIndex(FALSE, scrollToLine, 0, 0, 0),
              !.state.scrollToLine = scrollToLine]

\* first() and last() of a range; undefined, a falsy value, is 0
first(highlight) == IF highlight = NoHighlight THEN 0 ELSE highlight[1]

last(highlight) == IF highlight = NoHighlight THEN 0 ELSE highlight[2]

\* handleHighlight: the highlight it computes for a click on lineNumber
range(p, st, lineNumber, shiftKey) ==
    IF first(st.highlight) = lineNumber THEN NoHighlight
    ELSE IF ~shiftKey \/ first(st.highlight) = 0 THEN <<lineNumber>>
    ELSE IF p.enableMultilineHighlight /\ lineNumber > first(st.highlight)
         THEN <<first(st.highlight), lineNumber>>
    ELSE IF ~p.enableMultilineHighlight /\ lineNumber > first(st.highlight)
         THEN <<lineNumber>>
    ELSE <<lineNumber, last(st.highlight)>>

\* handleHighlight up to its setState; lineNumber is 0 where the clicked
\* element has none
handleHighlight(p, S, lineNumber, shiftKey) ==
    LET st == S.state
        highlight == getHighlightRange(range(p, st, lineNumber, shiftKey))
    IN IF lineNumber = 0 THEN S
       ELSE [S EXCEPT !.state.highlight = highlight,
                      !.state.scrollToIndex =
                          IF st.isFilteringLinesWithMatches
                          THEN getScrollIndex(FALSE, lineNumber, 0, 0, 0)
                          ELSE @]

\* a faulty callback of handleHighlight's setState: the filter stays on
afterHighlight_keeping_filter(S, highlight, wasFiltering) ==
    Emit(S, <<"onHighlight", highlight>>)

\* the callback of handleHighlight's setState, run once the state is committed
afterHighlight(S, highlight, wasFiltering) ==
    IF wasFiltering
    THEN handleFilterLinesWithMatches(Emit(S, <<"onHighlight", highlight>>), FALSE)
    ELSE Emit(S, <<"onHighlight", highlight>>)

\* resultLines[i], or the default 0 of handleScrollToLine where it is undefined
ResultLine(st, i) ==
    IF i \in 1..Len(st.resultLines) THEN st.resultLines[i] ELSE 0

\* a faulty handleEnterPressed: at the last match it stays there
handleEnterPressed_stopping(p, S) ==
    LET st == S.state
        position == st.currentResultsPosition
    IN IF ~p.searchLikeBrowser
       THEN handleFilterLinesWithMatches(S, ~st.isFilteringLinesWithMatches)
       ELSE IF st.scrollToLine # 0 /\ position + 1 < Len(st.resultLines)
            THEN [handleScrollToLine(S, ResultLine(st, position + 2))
                    EXCEPT !.state.currentResultsPosition = position + 1]
            ELSE handleScrollToLine(S, ResultLine(st, position + 1))

\* currentResultsPosition counts from 0, resultLines here from 1
handleEnterPressed(p, S) ==
    LET st == S.state
        position == st.currentResultsPosition
    IN IF ~p.searchLikeBrowser
       THEN handleFilterLinesWithMatches(S, ~st.isFilteringLinesWithMatches)
       ELSE IF st.scrollToLine # 0 /\ position + 1 < Len(st.resultLines)
            THEN [handleScrollToLine(S, ResultLine(st, position + 2))
                    EXCEPT !.state.currentResultsPosition = position + 1]
            ELSE [handleScrollToLine(S, ResultLine(st, 1))
                    EXCEPT !.state.currentResultsPosition = 0]

\* a faulty handleShiftEnterPressed: without searchLikeBrowser it toggles
\* the filter as Enter does
handleShiftEnterPressed_toggling(p, S) ==
    LET st == S.state
        position == st.currentResultsPosition
    IN IF ~p.searchLikeBrowser
       THEN handleFilterLinesWithMatches(S, ~st.isFilteringLinesWithMatches)
       ELSE IF st.scrollToLine # 0 /\ position - 1 >= 0
            THEN [handleScrollToLine(S, ResultLine(st, position))
                    EXCEPT !.state.currentResultsPosition = position - 1]
            ELSE [handleScrollToLine(S, ResultLine(st, Len(st.resultLines)))
                    EXCEPT !.state.currentResultsPosition = Len(st.resultLines) - 1]

handleShiftEnterPressed(p, S) ==
    LET st == S.state
        position == st.currentResultsPosition
    IN IF ~p.searchLikeBrowser
       THEN S
       ELSE IF st.scrollToLine # 0 /\ position - 1 >= 0
            THEN [handleScrollToLine(S, ResultLine(st, position))
                    EXCEPT !.state.currentResultsPosition = position - 1]
            ELSE [handleScrollToLine(S, ResultLine(st, Len(st.resultLines)))
                    EXCEPT !.state.currentResultsPosition = Len(st.resultLines) - 1]

\* a faulty handleUpdate: the new lines replace the accumulated ones
handleUpdate_replacing(p, S, moreLines, log) ==
    LET st == S.state
        count == Len(moreLines)
        S1 == [S EXCEPT !.encodedLog = log,
                        !.state.lines = moreLines,
                        !.state.offset = 0,
                        !.state.count = count,
                        !.state.scrollToIndex =
                            getScrollIndex(p.follow, p.scrollToLine, st.count, count, 0)]
    IN IF p.stream \/ p.websocket THEN forceSearch(p, S1) ELSE S1

\* a faulty handleUpdate: its scroll target leaves follow out
handleUpdate_not_following(p, S, moreLines, log) ==
    LET st == S.state
        lines == st.lines \o moreLines
        count == Len(lines)
        S1 == [S EXCEPT !.encodedLog = log,
                        !.state.lines = lines,
                        !.state.offset = 0,
                        !.state.count = count,
                        !.state.scrollToIndex =
                            getScrollIndex(FALSE, p.scrollToLine, st.count, count, 0)]
    IN IF p.stream \/ p.websocket THEN forceSearch(p, S1) ELSE S1

handleUpdate(p, S, moreLines, log) ==
    LET st == S.state
        lines == st.lines \o moreLines
        count == Len(lines)
        scrollToIndex == getScrollIndex(p.follow, p.scrollToLine, st.count, count, 0)
        S1 == [S EXCEPT !.encodedLog = log,
                        !.state.lines = lines,
                        !.state.offset = 0,
                        !.state.count = count,
                        !.state.scrollToIndex = scrollToIndex]
    IN IF p.stream \/ p.websocket THEN forceSearch(p, S1) ELSE S1

handleEnd(S, log) ==
    Emit([S EXCEPT !.encodedLog = log, !.state.loaded = TRUE], <<"onLoad">>)

handleError(S, err) ==
    Emit([S EXCEPT !.state.error = err], <<"onError", err>>)

\* request, for a url: the new emitter with the three handlers attached
listen(p, S) ==
    IF p.url # NoUrl
    THEN [S EXCEPT !.emitters = Append(@, [initEmitter(p) EXCEPT !.listeners = ListenerNames]),
                   !.emitter = Len(S.emitters) + 1]
    ELSE S

\* a faulty request: the remainder of an inline text is dropped
request_dropping_remainder(p, S) ==
    LET S0 == Emit(endRequest(S), <<"request">>)
        S1 == IF p.text # NoText
              THEN LET log == encode(p.text)
                       split == convertBufferToLines(log, << >>)
                   IN handleEnd(handleUpdate(p, S0, split.lines, log), log)
              ELSE S0
    IN listen(p, S1)

request(p, S) ==
    LET S0 == Emit(endRequest(S), <<"request">>)
        S1 == IF p.text # NoText
              THEN LET log == encode(p.text)
                       split == convertBufferToLines(log, << >>)
                       lines == IF split.remaining # << >>
                                THEN Append(split.lines, split.remaining)
                                ELSE split.lines
                   IN handleEnd(handleUpdate(p, S0, lines, log), log)
              ELSE S0
    IN listen(p, S1)

(* componentDidUpdate sees the state the render committed; the setState    *)
(* calls request() makes inside it are applied after it returns and cause  *)
(* one more render and componentDidUpdate.                                 *)
RECURSIVE Render(_, _, _, _)
\* a faulty componentDidUpdate: a new error makes it request again
componentDidUpdate_retrying(prevProps, prevState, p, S) ==
    LET st == S.state
        needRequest == \/ prevProps.url # p.url
                       \/ prevState.url # st.url
                       \/ prevProps.text # p.text
                       \/ st.error # NoError /\ prevState.error # st.error
        loaded == IF ~st.loaded /\ prevState.loaded # st.loaded
                  THEN << <<"onLoad">> >>
                  ELSE IF st.error # NoError /\ prevState.error # st.error
                       THEN << <<"onError", st.error>> >>
                       ELSE << >>
        highlighted == IF p.highlight # NoHighlight /\ prevProps.highlight # p.highlight
                       THEN << <<"onHighlight", st.highlight>> >>
                       ELSE << >>
    IN IF needRequest
       THEN Render(p, st, p, EmitAll(request(p, S), loaded \o highlighted))
       ELSE EmitAll(S, loaded \o highlighted)

componentDidUpdate(prevProps, prevState, p, S) ==
    LET st == S.state
        needRequest == \/ prevProps.url # p.url
                       \/ prevState.url # st.url
                       \/ prevProps.text # p.text
        loaded == IF ~st.loaded /\ prevState.loaded # st.loaded
                  THEN << <<"onLoad">> >>
                  ELSE IF st.error # NoError /\ prevState.error # st.error
                       THEN << <<"onError", st.error>> >>
                       ELSE << >>
        highlighted == IF p.highlight # NoHighlight /\ prevProps.highlight # p.highlight
                       THEN << <<"onHighlight", st.highlight>> >>
                       ELSE << >>
    IN IF needRequest
       THEN Render(p, st, p, EmitAll(request(p, S), loaded \o highlighted))
       ELSE EmitAll(S, loaded \o highlighted)

Render(prevProps, prevState, p, S) ==
    componentDidUpdate(prevProps, prevState, p,
                       [S EXCEPT !.state = getDerivedStateFromProps(p, S.state)])

\* the parent renders the instance S again, with props p
Rerender(prevProps, p, S) == Render(prevProps, S.state, p, S)

componentDidMount(p, S) ==
    LET S0 == [S EXCEPT !.state = getDerivedStateFromProps(p, S.state)]
    IN Render(p, S0.state, p, request(p, S0))

\* a faulty handleFormatPart: the selected entry itself is not counted
handleFormatPart_short(p, st, lineNumber) ==
    LET position == st.currentResultsPosition + 1
        initialOccurrence ==
            CHOOSE i \in 1..position :
                /\ st.resultLines[i] = st.resultLines[position]
                /\ \A j \in 1..(i - 1) : st.resultLines[j] # st.resultLines[position]
    IN IF /\ st.isSearching
          /\ p.searchLikeBrowser
          /\ ResultLine(st, position) = lineNumber
       THEN Cardinality({i \in initialOccurrence..(position - 1) : st.resultLines[i] = lineNumber})
       ELSE 0

\* handleFormatPart: the highlightedWordLocation it hands to
\* searchFormatPart for the row of lineNumber, 0 where it hands none;
\* position and initialOccurrence count from 1 here
handleFormatPart(p, st, lineNumber) ==
    LET position == st.currentResultsPosition + 1
        initialOccurrence ==
            CHOOSE i \in 1..position :
                /\ st.resultLines[i] = st.resultLines[position]
                /\ \A j \in 1..(i - 1) : st.resultLines[j] # st.resultLines[position]
    IN IF /\ st.isSearching
          /\ p.searchLikeBrowser
          /\ ResultLine(st, position) = lineNumber
       THEN Cardinality({i \in initialOccurrence..position : st.resultLines[i] = lineNumber})
       ELSE 0

\* render and renderRow: the rows of the list; row counts from 1 here
linesToRender(st) ==
    IF st.isFilteringLinesWithMatches THEN st.filteredLines ELSE st.lines

rowCount(st) ==
    IF st.isFilteringLinesWithMatches THEN Len(st.filteredLines) ELSE st.count

\* the line number row shows, 0 where the code reads past the unique indexes
number(st, row) ==
    IF st.isFilteringLinesWithMatches
    THEN IF row \in 1..Len(st.resultLineUniqueIndexes)
         THEN st.resultLineUniqueIndexes[row] ELSE 0
    ELSE row + st.offset

----------------------------------------------------------------------------
(* The emitters: the events a handle raises reach the handlers that are    *)
(* attached to it.                                                         *)

Deliver(S, id, name) == name \in S.emitters[id].listeners

\* the handlers that ran called setState, and the component renders; with
\* no handler attached nothing renders
AfterHandlers(p, S, id, S1) ==
    IF S.emitters[id].listeners # {} THEN Render(p, S.state, p, S1) ELSE S1

EmitUpdate(p, S, id, lines, log) ==
    IF Deliver(S, id, "update") THEN handleUpdate(p, S, lines, log) ELSE S

EmitEnd(S, id, log) ==
    IF Deliver(S, id, "end") THEN handleEnd(S, log) ELSE S

EmitError(S, id, err) ==
    IF Deliver(S, id, "error") THEN handleError(S, err) ELSE S

----------------------------------------------------------------------------
(* Steps *)

Instance == [state |-> state, emitter |-> emitter, encodedLog |-> encodedLog,
             emitters |-> emitters, calls |-> << >>]

Count(seq, x) == Cardinality({i \in 1..Len(seq) : seq[i] = x})

\* React ignores setState on an unmounted component
Commit(S) ==
    \E R \in {S} :
        /\ state' = IF phase = "unmounted" THEN state ELSE R.state
        /\ emitter' = R.emitter
        /\ encodedLog' = R.encodedLog
        /\ emitters' = R.emitters
        /\ requests' = requests + Count(R.calls, <<"request">>)
        /\ calls' = R.calls

\* an event of emitter id, with the lines of its update or the err of its
\* error, and whether the component's handlers were attached to it
Event(name, id, lines, err, delivered) ==
    [name |-> name, id |-> id, lines |-> lines, err |-> err,
     delivered |-> delivered]

NoEvent == Event("none", Null, << >>, NoError, FALSE)

\* the parent names one source: a url or a text
Sources == { s \in [url : Urls \cup {NoUrl}, text : Texts \cup {NoText}] :
                (s.url # NoUrl) # (s.text # NoText) }

\* a url is an opaque name: the first one is "u1"
InitialSources == { s \in Sources : s.url # "u2" }

Modes == { [stream |-> FALSE, websocket |-> FALSE],
           [stream |-> TRUE, websocket |-> FALSE],
           [stream |-> FALSE, websocket |-> TRUE] }

Init ==
    /\ phase = "constructed"
    /\ \E s \in InitialSources, m \in Modes :
          props = [url |-> s.url, text |-> s.text,
                   stream |-> m.stream, websocket |-> m.websocket,
                   follow |-> FALSE, scrollToLine |-> 0,
                   caseInsensitive |-> FALSE, enableSearch |-> TRUE,
                   searchLikeBrowser |-> TRUE,
                   highlight |-> NoHighlight, enableMultilineHighlight |-> TRUE]
    /\ state = InitialState
    /\ emitter = Null
    /\ encodedLog = << >>
    /\ emitters = << >>
    /\ sbKeywords = << >>
    /\ requests = 0
    /\ calls = << >>
    /\ event = NoEvent

Mount ==
    /\ phase = "constructed"
    /\ phase' = "mounted"
    /\ Commit(componentDidMount(props, Instance))
    /\ event' = NoEvent
    /\ UNCHANGED <<props, sbKeywords>>

\* componentWillUnmount.  React releases the instance and its SearchBar:
\* their state is no longer rendered or updated, and the model drops it.
Unmount ==
    /\ phase = "mounted"
    /\ phase' = "unmounted"
    /\ Commit([endRequest(Instance) EXCEPT !.state = InitialState])
    /\ sbKeywords' = << >>
    /\ event' = NoEvent
    /\ UNCHANGED props

\* the parent renders the component with another url or text
SetSource(s) ==
    /\ phase = "mounted"
    /\ s.url # props.url \/ s.text # props.text
    /\ requests < MaxRequests
    /\ props' = [props EXCEPT !.url = s.url, !.text = s.text]
    /\ Commit(Render(props, state, props', Instance))
    /\ event' = NoEvent
    /\ UNCHANGED <<phase, sbKeywords>>

\* the parent switches enableSearch off and on again: the component renders
\* twice with its source unchanged, and the new SearchBar starts empty
RemountSearchBar ==
    /\ phase = "mounted"
    /\ props.enableSearch
    /\ sbKeywords # << >>
    /\ sbKeywords' = << >>
    /\ LET off == [props EXCEPT !.enableSearch = FALSE]
       IN Commit(Rerender(off, props, Render(props, state, off, Instance)))
    /\ event' = NoEvent
    /\ UNCHANGED <<phase, props>>

SearchBarEnabled == phase = "mounted" /\ props.enableSearch /\ state.count # 0

\* a faulty SearchBar.search: keywords at the threshold are searched
search_at_threshold(p, S, keywords) ==
    IF keywords # << >> /\ Len(keywords) >= SEARCH_MIN_KEYWORDS
    THEN handleSearch(p, Emit(S, <<"onSearch">>), keywords)
    ELSE handleClearSearch(Emit(S, <<"onClearSearch">>))

\* SearchBar.search with the props onSearch and onClearSearch that render
\* gives the SearchBar
search(p, S, keywords) ==
    IF keywords # << >> /\ Len(keywords) > SEARCH_MIN_KEYWORDS
    THEN handleSearch(p, Emit(S, <<"onSearch">>), keywords)
    ELSE handleClearSearch(Emit(S, <<"onClearSearch">>))

\* SearchBar.handleSearchChange
SearchChange(keywords) ==
    /\ SearchBarEnabled
    /\ keywords # sbKeywords
    /\ sbKeywords' = keywords
    /\ Commit(Render(props, state, props, search(props, Instance, keywords)))
    /\ event' = NoEvent
    /\ UNCHANGED <<phase, props>>

\* SearchBar.handleFilterToggle
FilterToggle ==
    /\ SearchBarEnabled
    /\ Commit(Render(props, state, props,
                     handleFilterLinesWithMatches(Instance, ~state.isFilteringLinesWithMatches)))
    /\ event' = NoEvent
    /\ UNCHANGED <<phase, props, sbKeywords>>

\* SearchBar.handleKeyPress: Enter, with or without shift
KeyPress(shiftKey) ==
    /\ SearchBarEnabled
    /\ LET S == IF shiftKey THEN handleShiftEnterPressed(props, Instance)
                ELSE handleEnterPressed(props, Instance)
       IN Commit(Render(props, state, props, S))
    /\ event' = NoEvent
    /\ UNCHANGED <<phase, props, sbKeywords>>

\* the instance S has committed handleHighlight's state: its callback runs,
\* and where that switched the filter off the component renders once more
committed(p, S, highlight, wasFiltering) ==
    IF wasFiltering
    THEN Render(p, S.state, p, afterHighlight(S, highlight, wasFiltering))
    ELSE afterHighlight(S, highlight, wasFiltering)

\* renderRow.onLineNumberClick on a rendered row.  handleHighlight returns
\* the highlight it computed (nothing where it returned early), the click
\* callback runs, then React commits the state and runs the setState callback.
onLineNumberClick(p, S, row, shiftKey) ==
    LET st == S.state
        lineNumber == number(st, row)
        highlighted == IF lineNumber = 0 THEN NoHighlight
                       ELSE getHighlightRange(range(p, st, lineNumber, shiftKey))
        S1 == Emit(handleHighlight(p, S, lineNumber, shiftKey),
                   <<"onLineNumberClick", lineNumber, highlighted>>)
    IN IF lineNumber = 0 THEN S1
       ELSE committed(p, Render(p, st, p, S1), highlighted, st.isFilteringLinesWithMatches)

Click(row, shiftKey) ==
    /\ phase = "mounted"
    /\ row \in 1..rowCount(state)
    /\ Commit(onLineNumberClick(props, Instance, row, shiftKey))
    /\ event' = NoEvent
    /\ UNCHANGED <<phase, props, sbKeywords>>

\* the parent renders the component with another highlight
SetHighlight(h) ==
    /\ phase = "mounted"
    /\ h # props.highlight
    /\ props' = [props EXCEPT !.highlight = h]
    /\ Commit(Render(props, state, props', Instance))
    /\ event' = NoEvent
    /\ UNCHANGED <<phase, sbKeywords>>

Open(id) == id \in DOMAIN emitters /\ ~emitters[id].closed

RECURSIVE Received(_)
Received(es) == IF es = << >> THEN 0 ELSE Head(es).chunks + Received(Tail(es))

\* the transports deliver MaxChunks bodies, chunks and messages in all
MayReceive == Received(emitters) < MaxChunks

\* a closed emitter raises nothing more and its buffers are garbage; an
\* aborted one raises at most the event that was in flight
Close(e) == [e EXCEPT !.closed = TRUE, !.encodedLog = << >>, !.overage = << >>]

AfterEvent(e) == IF e.aborted THEN Close(e) ELSE e

\* the batch emitter: the whole body in one update, then end
EmitterResponse(id, body) ==
    /\ Open(id)
    /\ emitters[id].kind = "request"
    /\ MayReceive
    /\ LET split == convertBufferToLines(body, << >>)
           lines == IF split.remaining # << >>
                    THEN Append(split.lines, split.remaining) ELSE split.lines
           S0 == [Instance EXCEPT !.emitters[id] = Close([@ EXCEPT !.chunks = @ + 1])]
           S1 == EmitEnd(EmitUpdate(props, S0, id, lines, body), id, body)
       IN /\ Commit(AfterHandlers(props, Instance, id, S1))
          /\ event' = Event("response", id, lines, NoError, Deliver(Instance, id, "update"))
    /\ UNCHANGED <<phase, props, sbKeywords>>

Receive(id, data, name) ==
    /\ MayReceive
    /\ LET log == emitters[id].encodedLog \o data
           split == convertBufferToLines(data, emitters[id].overage)
           S0 == [Instance EXCEPT !.emitters[id] =
                        AfterEvent([@ EXCEPT !.encodedLog = log,
                                             !.overage = split.remaining,
                                             !.chunks = @ + 1])]
       IN /\ Commit(AfterHandlers(props, Instance, id,
                                  EmitUpdate(props, S0, id, split.lines, log)))
          /\ event' = Event(name, id, split.lines, NoError, Deliver(Instance, id, "update"))
    /\ UNCHANGED <<phase, props, sbKeywords>>

\* the stream emitter: one update per chunk
EmitterData(id, chunk) ==
    /\ Open(id)
    /\ emitters[id].kind = "stream"
    /\ Receive(id, chunk, "data")

\* the websocket emitter: one update per message, which it ends with "\n"
EmitterMessage(id, msg) ==
    /\ Open(id)
    /\ emitters[id].kind = "websocket"
    /\ Receive(id, Append(msg, LF), "message")

\* the stream is done or the connection closed: the overage is flushed
EmitterDone(id) ==
    /\ Open(id)
    /\ emitters[id].kind \in {"stream", "websocket"}
    /\ LET e == emitters[id]
           S0 == [Instance EXCEPT !.emitters[id] = Close(@)]
           S1 == IF e.overage # << >>
                 THEN EmitUpdate(props, S0, id, <<e.overage>>, e.encodedLog)
                 ELSE S0
       IN /\ Commit(AfterHandlers(props, Instance, id, EmitEnd(S1, id, e.encodedLog)))
          /\ event' = Event("end", id, IF e.overage # << >> THEN <<e.overage>> ELSE << >>,
                        NoError, Deliver(Instance, id, "end"))
    /\ UNCHANGED <<phase, props, sbKeywords>>

EmitterError(id, err) ==
    /\ Open(id)
    /\ LET S0 == [Instance EXCEPT !.emitters[id] = Close(@)]
       IN /\ Commit(AfterHandlers(props, Instance, id, EmitError(S0, id, err)))
          /\ event' = Event("error", id, << >>, err, Deliver(Instance, id, "error"))
    /\ UNCHANGED <<phase, props, sbKeywords>>

Next ==
    \/ Mount
    \/ Unmount
    \/ \E s \in Sources : SetSource(s)
    \/ RemountSearchBar
    \/ \E k \in SearchInputs : SearchChange(k)
    \/ FilterToggle
    \/ \E shiftKey \in BOOLEAN : KeyPress(shiftKey)
    \/ \E id \in 1..MaxRequests, body \in Chunks : EmitterResponse(id, body)
    \/ \E id \in 1..MaxRequests, chunk \in Chunks : EmitterData(id, chunk)
    \/ \E id \in 1..MaxRequests, msg \in Messages : EmitterMessage(id, msg)
    \/ \E id \in 1..MaxRequests : EmitterDone(id)
    \/ \E id \in 1..MaxRequests, err \in Errors : EmitterError(id, err)

Spec == Init /\ [][Next]_vars

\* the log is ingested and the source replaced while nobody touches the
\* search bar
NextIngest ==
    \/ Mount
    \/ Unmount
    \/ \E s \in Sources : SetSource(s)
    \/ \E id \in 1..MaxRequests, body \in Chunks : EmitterResponse(id, body)
    \/ \E id \in 1..MaxRequests, chunk \in Chunks : EmitterData(id, chunk)
    \/ \E id \in 1..MaxRequests, msg \in Messages : EmitterMessage(id, msg)
    \/ \E id \in 1..MaxRequests : EmitterDone(id)
    \/ \E id \in 1..MaxRequests, err \in Errors : EmitterError(id, err)

SpecIngest == Init /\ [][NextIngest]_vars

\* the user works the search bar over one source, which is ingested
\* meanwhile
NextSearch ==
    \/ Mount
    \/ \E k \in SearchInputs : SearchChange(k)
    \/ FilterToggle
    \/ \E shiftKey \in BOOLEAN : KeyPress(shiftKey)
    \/ \E id \in 1..MaxRequests, body \in Chunks : EmitterResponse(id, body)
    \/ \E id \in 1..MaxRequests, chunk \in Chunks : EmitterData(id, chunk)
    \/ \E id \in 1..MaxRequests, msg \in Messages : EmitterMessage(id, msg)
    \/ \E id \in 1..MaxRequests : EmitterDone(id)
    \/ \E id \in 1..MaxRequests, err \in Errors : EmitterError(id, err)

SpecSearch == Init /\ [][NextSearch]_vars

\* The search bar in both of its modes, searchLikeBrowser set or not.
InitSearchModes ==
    /\ phase = "constructed"
    /\ \E s \in InitialSources, m \in Modes, b \in BOOLEAN :
          props = [url |-> s.url, text |-> s.text,
                   stream |-> m.stream, websocket |-> m.websocket,
                   follow |-> FALSE, scrollToLine |-> 0,
                   caseInsensitive |-> FALSE, enableSearch |-> TRUE,
                   searchLikeBrowser |-> b,
                   highlight |-> NoHighlight, enableMultilineHighlight |-> TRUE]
    /\ state = InitialState
    /\ emitter = Null
    /\ encodedLog = << >>
    /\ emitters = << >>
    /\ sbKeywords = << >>
    /\ requests = 0
    /\ calls = << >>
    /\ event = NoEvent

SpecSearchModes == InitSearchModes /\ [][NextSearch]_vars

\* Following the tail: the sources and modes of Init with follow set, the
\* search bar and the emitters' events.
InitFollow ==
    /\ phase = "constructed"
    /\ \E s \in InitialSources, m \in Modes :
          props = [url |-> s.url, text |-> s.text,
                   stream |-> m.stream, websocket |-> m.websocket,
                   follow |-> TRUE, scrollToLine |-> 0,
                   caseInsensitive |-> FALSE, enableSearch |-> TRUE,
                   searchLikeBrowser |-> TRUE,
                   highlight |-> NoHighlight, enableMultilineHighlight |-> TRUE]
    /\ state = InitialState
    /\ emitter = Null
    /\ encodedLog = << >>
    /\ emitters = << >>
    /\ sbKeywords = << >>
    /\ requests = 0
    /\ calls = << >>
    /\ event = NoEvent

SpecFollow == InitFollow /\ [][NextSearch]_vars

\* The highlight: a four-line inline text, any highlight input, multi-line
\* highlight enabled or not, clicks on the line numbers, the filter and a
\* search beside them.
InitHighlight ==
    /\ phase = "constructed"
    /\ \E t \in ClickTexts, h \in HighlightInputs, m \in BOOLEAN :
          props = [url |-> NoUrl, text |-> t,
                   stream |-> FALSE, websocket |-> FALSE,
                   follow |-> FALSE, scrollToLine |-> 0,
                   caseInsensitive |-> FALSE, enableSearch |-> TRUE,
                   searchLikeBrowser |-> TRUE,
                   highlight |-> h, enableMultilineHighlight |-> m]
    /\ state = InitialState
    /\ emitter = Null
    /\ encodedLog = << >>
    /\ emitters = << >>
    /\ sbKeywords = << >>
    /\ requests = 0
    /\ calls = << >>
    /\ event = NoEvent

NextHighlight ==
    \/ Mount
    \/ \E row \in Rows, shiftKey \in BOOLEAN : Click(row, shiftKey)
    \/ \E h \in HighlightInputs : SetHighlight(h)
    \/ \E k \in SearchInputs : SearchChange(k)
    \/ FilterToggle

SpecHighlight == InitHighlight /\ [][NextHighlight]_vars

----------------------------------------------------------------------------
(* Properties *)

Attached == {id \in DOMAIN emitters : emitters[id].listeners # {}}

RequestedNow == phase = "mounted" /\ Count(calls, <<"request">>) > 0

IsPrefix(s, t) == Len(s) <= Len(t) /\ SubSeq(t, 1, Len(s)) = s

RECURSIVE Terminated(_)
Terminated(lines) ==
    IF lines = << >> THEN << >>
    ELSE Head(lines) \o <<LF>> \o Terminated(Tail(lines))

\* lines are the lines of bytes: none holds a terminator, and terminating
\* each gives bytes back, the last one being a non-empty remainder where
\* bytes do not end with a terminator
LinesOf(bytes, lines) ==
    /\ \A i \in 1..Len(lines) : \A j \in 1..Len(lines[i]) : lines[i][j] # LF
    /\ IF bytes = << >> THEN lines = << >>
       ELSE IF bytes[Len(bytes)] = LF THEN Terminated(lines) = bytes
       ELSE /\ Terminated(lines) = bytes \o <<LF>>
            /\ lines[Len(lines)] # << >>

\* C1: the session holds at most one emitter with its listeners attached,
\* the one this.emitter names, with all three of update, end and error;
\* every emitter request() created before it has been sent abort and has
\* no listener left.
C1_OneEmitter ==
    /\ Cardinality(Attached) <= 1
    /\ \A id \in DOMAIN emitters :
          IF id = emitter
          THEN emitters[id].listeners = ListenerNames /\ ~emitters[id].aborted
          ELSE emitters[id].listeners = {} /\ emitters[id].aborted
    /\ emitter # Null => emitter = Len(emitters)
    /\ phase = "unmounted" => emitter = Null

\* a second emitter is attached, and the first, which was still open, has
\* been aborted and detached
C1_Witness ==
    /\ Len(emitters) = 2
    /\ emitter = 2
    /\ emitters[2].listeners = ListenerNames
    /\ emitters[1].aborted
    /\ ~emitters[1].closed
    /\ emitters[1].chunks > 0



SearchStateEmpty ==
    /\ ~state.isSearching
    /\ state.searchKeywords = << >>
    /\ state.resultLines = << >>
    /\ state.currentResultsPosition = 0
    /\ state.filteredLines = << >>
    /\ state.resultLineUniqueIndexes = << >>

\* C2: when the step in which the parent supplied another url or text is
\* over, the search state is empty (not searching, no keywords, no matches,
\* position 0, no filtered lines), and where the new source is a url, whose
\* first update is still to come, the encoded log and the lines are empty.
C2_NewSourceResets ==
    (RequestedNow /\ requests > 1)
        => /\ SearchStateEmpty
           /\ props.text = NoText
                => encodedLog = << >> /\ state.lines = << >> /\ state.count = 0

\* C3: a step in which an emitter the session has torn down (aborted at a
\* source change or at unmount) raises an update, end or error leaves the
\* session's lines, count, loaded flag and error, its encoded log and its
\* emitter as they were, and calls neither onLoad nor onError.
C3_LateEventsIgnored ==
    [][(event'.name # "none" /\ emitters[event'.id].aborted)
         => /\ state'.lines = state.lines
            /\ state'.count = state.count
            /\ state'.loaded = state.loaded
            /\ state'.error = state.error
            /\ state' = state
            /\ encodedLog' = encodedLog
            /\ emitter' = emitter
            /\ calls' = << >>]_vars

\* the first emitter's late update carries lines and arrives after the
\* second ingestion has delivered lines of its own
C3_Witness ==
    /\ event.name \in {"response", "data", "message"}
    /\ event.lines # << >>
    /\ emitters[event.id].aborted
    /\ emitter # Null
    /\ emitter # event.id
    /\ emitters[emitter].chunks > 0
    /\ state.count > 0

\* C4: while the source stays the same the lines only grow at the end: a
\* step keeps the lines it found as a prefix, an update that is delivered
\* appends exactly its lines, in order, and count is the number of lines.
C4_AppendOnly ==
    [][/\ state.count = Len(state.lines)
       /\ state'.count = Len(state'.lines)
       /\ (props' = props /\ phase = "mounted" /\ phase' = "mounted")
            => /\ IsPrefix(state.lines, state'.lines)
               /\ event'.delivered /\ event'.name # "error"
                    => state'.lines = state.lines \o event'.lines
               /\ ~event'.delivered => state'.lines = state.lines]_vars

\* an update has appended its lines to lines that earlier updates brought
C4_Witness ==
    /\ event.delivered
    /\ event.lines # << >>
    /\ Len(state.lines) > Len(event.lines)
    /\ state.count = Len(state.lines)

\* C5: with an inline text as the source the session has no emitter (every
\* emitter created earlier is aborted), its lines are the terminated lines
\* of the encoded text followed by the non-empty remainder, and it is
\* loaded, as soon as the step that ran request() is over.
C5_InlineText ==
    (phase = "mounted" /\ props.text # NoText)
        => /\ emitter = Null
           /\ \A id \in DOMAIN emitters : emitters[id].aborted
           /\ encodedLog = encode(props.text)
           /\ LinesOf(encodedLog, state.lines)
           /\ state.count = Len(state.lines)
           /\ state.loaded
           /\ Count(calls, <<"request">>) > 0 => Count(calls, <<"onLoad">>) > 0

\* request() has just run for a text that ends without a terminator,
\* replacing a url whose emitter it tore down
C5_Witness ==
    /\ RequestedNow
    /\ props.text = <<97, 98, 10, 98, 97>>
    /\ state.lines = << <<97, 98>>, <<98, 97>> >>
    /\ state.loaded
    /\ Len(emitters) = 1
    /\ emitter = Null

\* the step made the ingestion reach Loaded: the emitter's end was
\* delivered, or request() ran for an inline text
ReachedLoaded ==
    \/ event.delivered /\ event.name \in {"response", "end"}
    \/ RequestedNow /\ props.text # NoText

\* C6: a step calls onLoad once if it made the ingestion reach Loaded, and
\* not at all otherwise; a step that only replaces the source does not.
C6_OnLoadOnce ==
    Count(calls, <<"onLoad">>) = IF ReachedLoaded THEN 1 ELSE 0

\* C7: the step in which an error of the session's emitter is delivered
\* leaves that error in state.error and calls onError with it once.
C7_OnErrorOnce ==
    (event.name = "error" /\ event.delivered)
        => /\ state.error = event.err
           /\ Count(calls, <<"onError", event.err>>) = 1

\* the SearchBar's input changed to keywords long enough to be searched:
\* the step is handleSearch(keywords)
SearchStep ==
    /\ sbKeywords' # sbKeywords
    /\ Len(sbKeywords') > SEARCH_MIN_KEYWORDS

\* C8: a step that is a search for keywords leaves the session searching
\* for them, with the matches searchLines finds in the encoded log as it is
\* then, and at position 0.
C8_SearchRecomputes ==
    [][SearchStep
         => /\ state'.isSearching
            /\ state'.searchKeywords = sbKeywords'
            /\ state'.resultLines
                 = searchLines(sbKeywords', encodedLog', props'.caseInsensitive)
            /\ state'.currentResultsPosition = 0]_vars

\* C9: when a delivered update has appended lines while the session is
\* searching for a keyword, the matches are those searchLines finds for the
\* keyword in the encoded log the update brought.
C9_UpdateRecomputes ==
    (/\ event.delivered
     /\ event.lines # << >>
     /\ state.isSearching
     /\ state.searchKeywords # << >>)
        => state.resultLines
             = searchLines(state.searchKeywords, encodedLog, props.caseInsensitive)

\* the user changed the SearchBar's input to keywords too short to be
\* searched: the step is handleClearSearch()
ClearStep ==
    /\ sbKeywords' # sbKeywords
    /\ sbKeywords' # << >>
    /\ Len(sbKeywords') <= SEARCH_MIN_KEYWORDS

\* C10, as the code has it: a step that clears the search leaves the
\* session not searching, with no keywords, no matches, no filtered lines
\* and position 0, and leaves the filter switched on or off as it was.
C10_ClearSearchKeepsFilter ==
    [][ClearStep
         => /\ ~state'.isSearching
            /\ state'.searchKeywords = << >>
            /\ state'.resultLines = << >>
            /\ state'.currentResultsPosition = 0
            /\ state'.filteredLines = << >>
            /\ state'.resultLineUniqueIndexes = << >>
            /\ state'.isFilteringLinesWithMatches
                 = state.isFilteringLinesWithMatches]_vars

\* the search has been cleared with the filter on, and nothing has been
\* searched since
C10_Witness ==
    /\ sbKeywords # << >>
    /\ Len(sbKeywords) <= SEARCH_MIN_KEYWORDS
    /\ ~state.isSearching
    /\ state.resultLines = << >>
    /\ state.currentResultsPosition = 0
    /\ state.isFilteringLinesWithMatches
    /\ state.count > 0

\* C10, as stated: a step that clears the search leaves the session not
\* searching, with no keywords, no matches, position 0 and the filter
\* switched off.
C10_ClearSearch ==
    [][ClearStep
         => /\ ~state'.isSearching
            /\ state'.searchKeywords = << >>
            /\ state'.resultLines = << >>
            /\ state'.currentResultsPosition = 0
            /\ ~state'.isFilteringLinesWithMatches]_vars

\* the members of a set of numbers in ascending order
Ascending(set) ==
    [i \in 1..Cardinality(set) |->
        CHOOSE x \in set : Cardinality({y \in set : y < x}) = i - 1]

\* the numbers of the lines that hold a match
MatchedLines(st) ==
    {st.resultLines[i] : i \in 1..Len(st.resultLines)} \cap 1..Len(st.lines)

\* C11: a step that switches the filter on while there are matches leaves
\* one visible row per line that holds a match, in ascending order of the
\* line numbers, each row showing that line's number and content; a step
\* that switches the filter off leaves every line of the log visible.
C11_FilterProjects ==
    [][(/\ phase' = "mounted"
        /\ state'.isFilteringLinesWithMatches # state.isFilteringLinesWithMatches)
         => IF state'.isFilteringLinesWithMatches
            THEN state.resultLines # << >>
                   => LET U == Ascending(MatchedLines(state))
                      IN /\ rowCount(state') = Len(U)
                         /\ \A row \in 1..Len(U) :
                               /\ number(state', row) = U[row]
                               /\ linesToRender(state')[row] = state.lines[U[row]]
            ELSE /\ rowCount(state') = Len(state.lines)
                 /\ linesToRender(state') = state.lines
                 /\ \A row \in 1..Len(state.lines) : number(state', row) = row]_vars

\* the filter is on over matches that repeat a line and skip another: two
\* rows, for lines 1 and 3 of four
C11_Witness ==
    /\ state.isFilteringLinesWithMatches
    /\ state.resultLines = <<1, 3>>
    /\ Len(state.lines) = 4
    /\ state.resultLineUniqueIndexes = <<1, 3>>
    /\ state.filteredLines = <<state.lines[1], state.lines[3]>>

\* the state Enter, or Shift and Enter, in the SearchBar leaves
AfterKeyPress(shiftKey) ==
    Render(props, state, props,
           IF shiftKey THEN handleShiftEnterPressed(props, Instance)
           ELSE handleEnterPressed(props, Instance)).state

\* C12: with n >= 1 matches, Enter at the last position, n - 1, leaves
\* position 0 and asks to scroll to the first match, and Shift and Enter at
\* position 0 leaves position n - 1 and asks to scroll to the last match.
C12_NavigationWraps ==
    (SearchBarEnabled /\ Len(state.resultLines) >= 1)
        => LET n == Len(state.resultLines)
               next == AfterKeyPress(FALSE)
               prev == AfterKeyPress(TRUE)
           IN /\ state.currentResultsPosition = n - 1
                   => /\ next.currentResultsPosition = 0
                      /\ next.scrollToLine = state.resultLines[1]
                      /\ next.resultLines = state.resultLines
              /\ state.currentResultsPosition = 0
                   => /\ prev.currentResultsPosition = n - 1
                      /\ prev.scrollToLine = state.resultLines[n]
                      /\ prev.resultLines = state.resultLines

\* the navigation has reached the last of several matches, on another line
\* than the first, from where Enter wraps
C12_Witness ==
    /\ SearchBarEnabled
    /\ Len(state.resultLines) >= 2
    /\ state.currentResultsPosition = Len(state.resultLines) - 1
    /\ state.scrollToLine = state.resultLines[Len(state.resultLines)]
    /\ state.scrollToLine # state.resultLines[1]

\* the user changed the SearchBar's input
KeywordChange == sbKeywords' # sbKeywords /\ sbKeywords' # << >>

\* C13: a step that changes the keywords calls one of onSearch and
\* onClearSearch, once: onSearch if the keywords are longer than
\* SEARCH_MIN_KEYWORDS, and onClearSearch otherwise, which leaves the
\* session not searching and without matches.  An update that is delivered
\* while the stored keywords are no longer than SEARCH_MIN_KEYWORDS leaves
\* the search state as it was.
C13_ShortKeywordsNeverSearch ==
    [][/\ KeywordChange
            => /\ Count(calls', <<"onSearch">>) + Count(calls', <<"onClearSearch">>) = 1
               /\ Count(calls', <<"onSearch">>) = 1
                    <=> Len(sbKeywords') > SEARCH_MIN_KEYWORDS
               /\ Len(sbKeywords') <= SEARCH_MIN_KEYWORDS
                    => ~state'.isSearching /\ state'.resultLines = << >>
       /\ (/\ event'.delivered
           /\ event'.lines # << >>
           /\ Len(state.searchKeywords) <= SEARCH_MIN_KEYWORDS)
            => /\ state'.isSearching = state.isSearching
               /\ state'.searchKeywords = state.searchKeywords
               /\ state'.resultLines = state.resultLines]_vars

\* keywords of the threshold's length have just been typed over a log in
\* which they occur, and nothing is searched
C13_Witness ==
    /\ calls = << <<"onClearSearch">> >>
    /\ Len(sbKeywords) = SEARCH_MIN_KEYWORDS
    /\ searchLines(sbKeywords, encodedLog, props.caseInsensitive) # << >>
    /\ ~state.isSearching
    /\ state.resultLines = << >>

\* the instance after a click on a row's line number
AfterClick(row, shiftKey) == onLineNumberClick(props, Instance, row, shiftKey)

Clickable == IF phase = "mounted" THEN 1..rowCount(state) ELSE {}

\* C14: a click without shift on line n leaves the highlight [n, n], except
\* that a click on the line that is the current single-line highlight leaves
\* the highlight empty.
C14_PlainClick ==
    \A row \in Clickable :
        LET n == number(state, row)
        IN AfterClick(row, FALSE).state.highlight =
               IF state.highlight = <<n, n>> THEN NoHighlight ELSE <<n, n>>

\* a range of at most one line
SingleLine(highlight) == highlight = NoHighlight \/ highlight[1] = highlight[2]

\* C15: with multi-line highlighting disabled a shift-click on a line leaves
\* the highlight a plain click on it leaves, which is never more than one line.
C15_ShiftClickAsPlain ==
    ~props.enableMultilineHighlight =>
        \A row \in Clickable :
            /\ AfterClick(row, TRUE).state.highlight = AfterClick(row, FALSE).state.highlight
            /\ SingleLine(AfterClick(row, TRUE).state.highlight)

\* empty, or an interval with lo <= hi
Ordered(highlight) == highlight = NoHighlight \/ highlight[1] <= highlight[2]

\* C16: with multi-line highlighting enabled a shift-click on line n while a
\* highlight exists leaves an ascending interval that contains n, and the
\* highlight is always empty or an interval with lo <= hi.
C16_ShiftClickExtends ==
    props.enableMultilineHighlight =>
        /\ Ordered(state.highlight)
        /\ \A row \in Clickable :
              LET n == number(state, row)
                  h == AfterClick(row, TRUE).state.highlight
              IN state.highlight # NoHighlight =>
                     h # NoHighlight /\ h[1] <= n /\ n <= h[2] /\ Ordered(h)

\* the ranges the last step passed to onHighlight
Reported == { calls[i][2] : i \in { j \in 1..Len(calls) : calls[j][1] = "onHighlight" } }

\* C17: a step of the mounted component that changes the highlight invokes
\* onHighlight, and with the highlight the component holds after the step.
C17_OnHighlight ==
    [][ phase = "mounted" /\ phase' = "mounted" /\ state'.highlight # state.highlight
            => Reported' = { state'.highlight } ]_vars

\* the calls of onLineNumberClick in the last step
ClickReports == { calls[i] : i \in { j \in 1..Len(calls) : calls[j][1] = "onLineNumberClick" } }

\* C18: the click callback receives the number of a line that was on display
\* and the highlight the component holds once the click is handled.
C18_ClickCallback ==
    [][ \A report \in ClickReports' :
            /\ report[2] \in { number(state, row) : row \in Clickable }
            /\ report[3] = state'.highlight ]_vars

\* C19: with follow set, a step in which the log grows leaves the scroll
\* target on the last line of the log, a search being active or not.
C19_FollowsTail ==
    [][ props.follow /\ phase' = "mounted" /\ Len(state'.lines) > Len(state.lines)
            => /\ state'.count = Len(state'.lines)
               /\ state'.scrollToIndex = state'.count - 1 ]_vars

\* an update has grown a log that already had lines, during a search
C19_Witness ==
    /\ props.follow
    /\ event.name \in {"data", "message"}
    /\ event.delivered
    /\ event.lines # << >>
    /\ Len(state.lines) > Len(event.lines)
    /\ state.isSearching
    /\ state.resultLines # << >>
    /\ state.scrollToIndex = Len(state.lines) - 1

\* C20: while the filter shows matching lines, Enter or shift-Enter on the
\* search bar leaves a scroll target that is the row of the selected match
\* among the rows on display.
C20_ScrollTargetVisible ==
    (/\ SearchBarEnabled
     /\ props.searchLikeBrowser
     /\ state.isFilteringLinesWithMatches
     /\ state.filteredLines # << >>
     /\ state.resultLines # << >>)
        => \A shiftKey \in BOOLEAN :
               LET st == AfterKeyPress(shiftKey)
                   row == st.scrollToIndex + 1
               IN /\ row \in 1..rowCount(st)
                  /\ number(st, row) = st.scrollToLine

\* C21: a step calls request() once if it mounts the component or renders
\* it with another url or text, and not at all otherwise, whatever events
\* and errors it delivers.
C21_OneRequestPerSource ==
    [][ Count(calls', <<"request">>) =
            IF \/ phase = "constructed" /\ phase' = "mounted"
               \/ props'.url # props.url
               \/ props'.text # props.text
            THEN 1 ELSE 0 ]_vars

\* the second ingestion has delivered an error, and nothing was requested
C21_Witness ==
    /\ phase = "mounted"
    /\ requests = 2
    /\ event.name = "error"
    /\ event.delivered
    /\ state.error # NoError
    /\ Count(calls, <<"request">>) = 0

\* C22: while the filter is on, the rows on display are the lines that hold
\* a match of the current match list, one row each, in ascending order; no
\* match, no row.
C22_FilterShowsMatches ==
    (phase = "mounted" /\ state.isFilteringLinesWithMatches)
        => LET U == Ascending(MatchedLines(state))
           IN /\ rowCount(state) = Len(U)
              /\ \A row \in 1..Len(U) : linesToRender(state)[row] = state.lines[U[row]]

\* C23: the position among the matches is an index into the match list,
\* counted from 0, and is 0 while the list is empty.
C23_PositionInRange ==
    phase = "mounted" =>
        IF state.resultLines = << >>
        THEN state.currentResultsPosition = 0
        ELSE state.currentResultsPosition \in 0..(Len(state.resultLines) - 1)

\* C24: right after a search that found a match, Enter selects the first
\* match: position 0, and the line to scroll to is the first of the list.
C24_FirstEnterSelectsFirst ==
    (/\ SearchBarEnabled
     /\ props.searchLikeBrowser
     /\ Count(calls, <<"onSearch">>) > 0
     /\ state.resultLines # << >>)
        => /\ AfterKeyPress(FALSE).currentResultsPosition = 0
           /\ AfterKeyPress(FALSE).scrollToLine = state.resultLines[1]

\* the entries of the match list for a line
Entries(st, lineNumber) == {i \in 1..Len(st.resultLines) : st.resultLines[i] = lineNumber}

\* the entry of the match list at the current position, 0 where there is none
Selected(st) ==
    IF st.currentResultsPosition + 1 \in 1..Len(st.resultLines)
    THEN st.currentResultsPosition + 1 ELSE 0

\* the occurrence the claim has marked in the row of lineNumber: for the
\* line of the selected entry, that entry's rank among the line's entries
Occurrence(st, lineNumber) ==
    IF Selected(st) # 0 /\ st.resultLines[Selected(st)] = lineNumber
    THEN Selected(st) - (CHOOSE i \in Entries(st, lineNumber) :
                            \A j \in Entries(st, lineNumber) : i <= j) + 1
    ELSE 0

\* C25: with searchLikeBrowser set, the row of the line of the selected match
\* marks occurrence (position - first entry of that line + 1), which is one
\* of the line's entries, and no other row marks an occurrence; with
\* searchLikeBrowser not set no row marks one.
C25_SelectedOccurrence ==
    phase = "mounted" =>
        \A lineNumber \in 1..state.count :
            /\ handleFormatPart(props, state, lineNumber) =
                   IF props.searchLikeBrowser THEN Occurrence(state, lineNumber) ELSE 0
            /\ handleFormatPart(props, state, lineNumber) \in
                   0..Cardinality(Entries(state, lineNumber))

\* the second of two matches on line 1 is selected
C25_Witness ==
    /\ phase = "mounted"
    /\ props.searchLikeBrowser
    /\ state.resultLines = <<1, 1>>
    /\ state.currentResultsPosition = 1
    /\ handleFormatPart(props, state, 1) = 2
    /\ handleFormatPart(props, state, 2) = 0

\* C25 as stated: the row of the line of the selected match marks that
\* occurrence, whatever searchLikeBrowser is.
C25_Original ==
    phase = "mounted" =>
        \A lineNumber \in 1..state.count :
            handleFormatPart(props, state, lineNumber) = Occurrence(state, lineNumber)

\* C26: without searchLikeBrowser, Enter inverts the filter and leaves the
\* position among the matches and the scroll target as they were, and Shift
\* and Enter leaves the whole instance as it was.
C26_EnterTogglesFilter ==
    (SearchBarEnabled /\ ~props.searchLikeBrowser)
        => /\ AfterKeyPress(FALSE).isFilteringLinesWithMatches
                 = ~state.isFilteringLinesWithMatches
           /\ AfterKeyPress(FALSE).currentResultsPosition = state.currentResultsPosition
           /\ AfterKeyPress(FALSE).scrollToIndex = state.scrollToIndex
           /\ AfterKeyPress(FALSE).scrollToLine = state.scrollToLine
           /\ Rerender(props, props, handleShiftEnterPressed(props, Instance))
                 = [Instance EXCEPT !.calls = << >>]

\* without searchLikeBrowser a key press has switched the filter on over a
\* match
C26_Witness ==
    /\ phase = "mounted"
    /\ ~props.searchLikeBrowser
    /\ sbKeywords # << >>
    /\ calls = << >>
    /\ state.isFilteringLinesWithMatches
    /\ state.resultLines # << >>
    /\ state.filteredLines # << >>

\* C27: while the component is not searching, its match list and its
\* stored keywords are empty.
C27_IdleSearchIsEmpty ==
    ~state.isSearching => state.resultLines = << >> /\ state.searchKeywords = << >>

\* a search whose matches were visited has been cleared
C27_Witness ==
    /\ phase = "mounted"
    /\ Count(calls, <<"onClearSearch">>) > 0
    /\ state.scrollToLine # 0
    /\ ~state.isSearching
    /\ state.resultLines = << >>

\* C28: a click on a line number while the filter is on leaves the filter
\* off, no filtered rows, every line of the log on display, and the clicked
\* line as the scroll target.
C28_ClickLeavesFilter ==
    [][ \A report \in ClickReports' :
            (state.isFilteringLinesWithMatches /\ report[2] # 0)
                => /\ ~state'.isFilteringLinesWithMatches
                   /\ state'.filteredLines = << >>
                   /\ linesToRender(state') = state'.lines
                   /\ rowCount(state') = Len(state'.lines)
                   /\ state'.scrollToIndex = report[2] - 1 ]_vars

\* a click on a line number has set the scroll target, which it does only
\* with the filter on, and the filter is off
C28_Witness ==
    /\ phase = "mounted"
    /\ ~state.isFilteringLinesWithMatches
    /\ state.filteredLines = << >>
    /\ \E report \in ClickReports : state.scrollToIndex = report[2] - 1

\* C29: a render with another highlight input leaves a non-empty highlight
\* as it was and replaces an empty one by the range of the new input; a
\* click that empties the highlight leaves the range of the input; and the
\* highlight is empty only while the input has an empty range.
C29_InputFillsEmptyHighlight ==
    [][ (phase = "mounted" /\ phase' = "mounted")
            => /\ props'.highlight # props.highlight
                    => state'.highlight = IF state.highlight # NoHighlight
                                          THEN state.highlight
                                          ELSE getHighlightRange(props'.highlight)
               /\ \A report \in ClickReports' :
                      (report[2] # 0 /\ report[3] = NoHighlight)
                          => state'.highlight = getHighlightRange(props.highlight)
               /\ state'.highlight = NoHighlight
                    => getHighlightRange(props'.highlight) = NoHighlight ]_vars

\* a render with the highlight input [3, 2] has left the highlight [1, 1]
C29_Witness ==
    /\ phase = "mounted"
    /\ props.highlight = <<3, 2>>
    /\ state.highlight = <<1, 1>>
    /\ Reported = { <<1, 1>> }
    /\ ClickReports = {}

\* an update was delivered to the component's handlers in the last step
UpdateDelivered ==
    /\ event.delivered
    /\ \/ event.name \in {"data", "message"}
       \/ event.name = "end" /\ event.lines # << >>

\* C30: with a stream or a websocket as the source, a step that delivers an
\* update while keywords longer than SEARCH_MIN_KEYWORDS are stored leaves
\* the position among the matches at 0.
C30_UpdateResetsPosition ==
    [][ (/\ props.stream \/ props.websocket
         /\ UpdateDelivered'
         /\ Len(state.searchKeywords) > SEARCH_MIN_KEYWORDS)
            => state'.currentResultsPosition = 0 ]_vars

\* an update arrived during a search whose matches had been visited
C30_Witness ==
    /\ props.stream \/ props.websocket
    /\ UpdateDelivered
    /\ Len(state.searchKeywords) > SEARCH_MIN_KEYWORDS
    /\ Len(state.resultLines) > 2
    /\ state.scrollToLine # 0
    /\ state.currentResultsPosition = 0

====
